---------------------------- MODULE Spec2Model ----------------------------
(***************************************************************************)
(* Model of dags/monthly_orders_insert.py: the monthly_orders_insert DAG   *)
(* (five SQL statements chained between two empty bookend tasks) and the   *)
(* warehouse tables the statements read and write.                         *)
(*                                                                         *)
(* Column values are SQL values: Null is <<>>, a present value v is <<v>>. *)
(* Tables that can hold the same row twice are bags.                       *)
(***************************************************************************)
EXTENDS Integers, Sequences, FiniteSets, Bags, TLC

(***************************************************************************)
(* Bounds of the model.                                                    *)
(***************************************************************************)
\* staging rows present in STG.raw_data.ORDERS
MaxRows == 2
\* months the wall clock can pass after the first schedule point
MaxMonths == 2
\* statements that fail over the whole history
MaxFailures == 1
\* statements an operator executes by hand (StmtSpec)
MaxSteps == 6

(***************************************************************************)
(* SQL values and three-valued comparison.                                 *)
(***************************************************************************)
Null == <<>>

Val(x) == <<x>>

IsNull(v) == v = Null

\* a = b of SQL used as a join / ON / WHERE condition: true only when both
\* sides are present and equal (a NULL comparison is not true)
SqlEq(a, b) == (~IsNull(a)) /\ (~IsNull(b)) /\ a = b

\* a > n as a WHERE condition
SqlGt(a, n) == (~IsNull(a)) /\ a[1] > n

\* (mutant) the first argument as it is, NULL or not
CoalesceFirst(a, d) == a

\* COALESCE(a, d)
Coalesce(a, d) == IF IsNull(a) THEN d ELSE a

(***************************************************************************)
(* Bags built from a set of derivations: the row out(i) once per mult(i).  *)
(***************************************************************************)
RECURSIVE SumOver(_, _)
SumOver(S, f) ==
    IF S = {} THEN 0
    ELSE LET i == CHOOSE x \in S : TRUE
         IN  f[i] + SumOver(S \ {i}, f)

\* out and mult are functions on S
BagFrom(S, out, mult) ==
    [r \in {out[i] : i \in S} |->
        SumOver({i \in S : out[i] = r}, mult)]

Rows(B) == BagToSet(B)

(***************************************************************************)
(* Dates.  A date is [y, m, d].                                            *)
(***************************************************************************)
Date(y, m, d) == [y |-> y, m |-> m, d |-> d]

IsLeap(y) == (y % 4 = 0 /\ y % 100 # 0) \/ y % 400 = 0

DaysIn(y, m) ==
    IF m = 2 THEN (IF IsLeap(y) THEN 29 ELSE 28)
    ELSE IF m \in {4, 6, 9, 11} THEN 30 ELSE 31

ValidDate(y, m, d) == m \in 1..12 /\ d \in 1..DaysIn(y, m)

Digits == <<"0", "1", "2", "3", "4", "5", "6", "7", "8", "9">>

IsDigit(c) == \E i \in 1..10 : Digits[i] = c

DigitVal(c) == (CHOOSE i \in 1..10 : Digits[i] = c) - 1

\* TRY_TO_DATE(text, 'DD-MM-YYYY'): the date, or NULL when the text does not
\* parse.  text is an SQL value holding a sequence of characters.
TryToDate(text) ==
    IF IsNull(text) THEN Null
    ELSE LET s == text[1]
         IN  IF /\ Len(s) = 10
                /\ s[3] = "-" /\ s[6] = "-"
                /\ \A i \in {1, 2, 4, 5, 7, 8, 9, 10} : IsDigit(s[i])
             THEN LET d == DigitVal(s[1]) * 10 + DigitVal(s[2])
                      m == DigitVal(s[4]) * 10 + DigitVal(s[5])
                      y == DigitVal(s[7]) * 1000 + DigitVal(s[8]) * 100
                           + DigitVal(s[9]) * 10 + DigitVal(s[10])
                  IN  IF ValidDate(y, m, d) THEN Val(Date(y, m, d)) ELSE Null
             ELSE Null

\* TO_CHAR(date, 'YYYYMM'); the six digits are kept as the number they spell
ToCharYYYYMM(dt) ==
    IF IsNull(dt) THEN Null ELSE Val(dt[1].y * 100 + dt[1].m)

\* TO_DATE(tbl_dt::STRING, 'YYYYMMDD')
TblDtToDate(t) ==
    IF IsNull(t) THEN Null
    ELSE Val(Date(t[1] \div 10000, (t[1] \div 100) % 100, t[1] % 100))

\* DATE_TRUNC('MONTH', date)
DateTruncMonth(dt) ==
    IF IsNull(dt) THEN Null ELSE Val(Date(dt[1].y, dt[1].m, 1))

Min2(a, b) == IF a < b THEN a ELSE b

\* ADD_MONTHS(date, n)
AddMonths(dt, n) ==
    LET idx == dt.y * 12 + (dt.m - 1) + n
        y   == idx \div 12
        m   == (idx % 12) + 1
    IN  Date(y, m, Min2(dt.d, DaysIn(y, m)))

(***************************************************************************)
(* String sanitation: REGEXP_REPLACE(x, '[^a-zA-Z0-9\\s\\.,-]', '').       *)
(* The pattern is followed from the Python source text to the regular      *)
(* expression the database compiles.  Texts are sequences of characters.   *)
(***************************************************************************)
\* the characters of the model, in ASCII order
Alphabet ==
    <<" ", "!", "#", ",", "-", ".",
      "0", "1", "2", "3", "4", "5", "6", "7", "8", "9",
      "A", "B", "C", "D", "E", "F", "G", "H", "I", "J", "K", "L", "M",
      "N", "O", "P", "Q", "R", "S", "T", "U", "V", "W", "X", "Y", "Z",
      "[", "\\", "]", "^",
      "a", "b", "c", "d", "e", "f", "g", "h", "i", "j", "k", "l", "m",
      "n", "o", "p", "q", "r", "s", "t", "u", "v", "w", "x", "y", "z">>

Ord(c) == CHOOSE i \in 1..Len(Alphabet) : Alphabet[i] = c

Whitespace == {" "}

\* the pattern as written between the quotes in the .py file
PatternSource ==
    <<"[", "^", "a", "-", "z", "A", "-", "Z", "0", "-", "9",
      "\\", "\\", "s", "\\", "\\", ".", ",", "-", "]">>

\* a Python string literal that is not raw: \\ becomes one backslash
RECURSIVE PyUnescape(_)
PyUnescape(s) ==
    IF Len(s) = 0 THEN <<>>
    ELSE IF Len(s) >= 2 /\ s[1] = "\\" /\ s[2] = "\\"
         THEN <<"\\">> \o PyUnescape(SubSeq(s, 3, Len(s)))
         ELSE <<s[1]>> \o PyUnescape(Tail(s))

\* a single-quoted SQL string constant: backslash starts an escape sequence;
\* \\ is a backslash, and before a character that begins no escape
\* sequence (s and . here) the backslash is dropped
RECURSIVE SqlUnescape(_)
SqlUnescape(s) ==
    IF Len(s) = 0 THEN <<>>
    ELSE IF Len(s) >= 2 /\ s[1] = "\\"
         THEN <<s[2]>> \o SqlUnescape(SubSeq(s, 3, Len(s)))
         ELSE <<s[1]>> \o SqlUnescape(Tail(s))

\* the regular expression the database compiles
Pattern == SqlUnescape(PyUnescape(PatternSource))

\* the characters listed by the items of a bracket expression, read from
\* position i up to the closing bracket
RECURSIVE ClassItems(_, _)
ClassItems(p, i) ==
    IF i > Len(p) \/ p[i] = "]" THEN {}
    ELSE IF p[i] = "\\" /\ i < Len(p)
         THEN (IF p[i + 1] = "s" THEN Whitespace ELSE {p[i + 1]})
              \cup ClassItems(p, i + 2)
    ELSE IF i + 2 <= Len(p) /\ p[i + 1] = "-" /\ p[i + 2] # "]"
         THEN {Alphabet[k] : k \in Ord(p[i])..Ord(p[i + 2])}
              \cup ClassItems(p, i + 3)
    ELSE {p[i]} \cup ClassItems(p, i + 1)

\* the characters a negated bracket expression [^...] leaves alone
KeptChars == ClassItems(Pattern, 3)

\* REGEXP_REPLACE(text, pattern, ''): every character the pattern matches
\* is removed
Sanitize(text) ==
    IF IsNull(text) THEN Null
    ELSE Val(SelectSeq(text[1], LAMBDA c : c \in KeptChars))

(***************************************************************************)
(* The data the model draws the staging table from.                        *)
(***************************************************************************)
TxtAnn == <<"A", "n", "n">>

TxtBo == <<"B", "o", " ", "#", "2">>

TxtCy == <<"C", "y">>

TxtChair == <<"C", "h", "a", "i", "r", " ", "#", "1", "!">>

TxtDesk == <<"D", "e", "s", "k">>

TxtRome == <<"R", "o", "m", "e">>

TxtMarch15 == <<"1", "5", "-", "0", "3", "-", "2", "0", "2", "4">>

TxtIsoDate == <<"2", "0", "2", "4", "-", "0", "3", "-", "1", "5">>

\* the business columns of an order line: two lines of order O1 that
\* disagree on the customer's and the product's attributes, the second
\* without a postal code, and a line of order O2
KeyProfiles ==
    { [k |-> 1, OrderID |-> Val("O1"), CustomerID |-> Val("C1"),
       CustomerName |-> Val(TxtAnn), ProductID |-> Val("P1"),
       ProductName |-> Val(TxtChair), postalcode |-> Val(100)],
      [k |-> 2, OrderID |-> Val("O1"), CustomerID |-> Val("C1"),
       CustomerName |-> Val(TxtBo), ProductID |-> Val("P1"),
       ProductName |-> Val(TxtDesk), postalcode |-> Null],
      [k |-> 3, OrderID |-> Val("O2"), CustomerID |-> Val("C2"),
       CustomerName |-> Val(TxtCy), ProductID |-> Val("P2"),
       ProductName |-> Val(TxtDesk), postalcode |-> Val(200)] }

\* order date, ingestion batch and profit of a staging row
LoadProfiles ==
    { [l |-> 1, OrderDate |-> Val(TxtMarch15), TBL_DT |-> Val(20240310),
       Profit |-> Val(100)],
      [l |-> 2, OrderDate |-> Val(TxtMarch15), TBL_DT |-> Val(20240320),
       Profit |-> Val(100)],
      [l |-> 3, OrderDate |-> Val(TxtMarch15), TBL_DT |-> Val(20240410),
       Profit |-> Val(100)],
      [l |-> 4, OrderDate |-> Val(TxtIsoDate), TBL_DT |-> Val(20240320),
       Profit |-> Val(100)],
      [l |-> 5, OrderDate |-> Val(TxtMarch15), TBL_DT |-> Val(20240320),
       Profit |-> Val(0)] }

\* the columns carried through unchanged
PassThrough ==
    [ShipMode |-> Val("Standard"), Sales |-> Val(250), Quantity |-> Val(2),
     Discount |-> Val(0)]

StagingRow(kp, lp) ==
    [RowID |-> Val(kp.k * 10 + lp.l),
     OrderID |-> kp.OrderID,
     OrderDate |-> lp.OrderDate,
     ShipDate |-> lp.OrderDate,
     CustomerID |-> kp.CustomerID,
     CustomerName |-> kp.CustomerName,
     Segment |-> Val("Consumer"),
     Country |-> Val("IT"),
     City |-> Val(TxtRome),
     State |-> Val(TxtRome),
     postalcode |-> kp.postalcode,
     Region |-> Val(TxtRome),
     ProductID |-> kp.ProductID,
     Category |-> Val(TxtDesk),
     ProductName |-> kp.ProductName,
     Profit |-> lp.Profit,
     TBL_DT |-> lp.TBL_DT,
     pass |-> PassThrough]

\* the staging rows of the model: the first line of O1 in the two March
\* batches, its second line in the later March batch and in the April
\* batch, and in the later March batch the line of O2 and two more lines of
\* O2 that the filter rejects
ProfilePairs ==
    {<<1, 1>>, <<1, 2>>, <<2, 2>>, <<2, 3>>, <<3, 2>>, <<3, 4>>, <<3, 5>>}

StagingUniverse ==
    {StagingRow(pr[1], pr[2]) :
        pr \in {x \in KeyProfiles \X LoadProfiles :
                  <<x[1].k, x[2].l>> \in ProfilePairs}}

\* contents of transformed.public.PRODUCT_SUBCATEGORY_MAP: one row for the
\* sanitized chair name, or two; the desk is in neither
MapRow(name, sub) == [PRODUCTNAME |-> Val(name), SUBCATEGORY |-> Val(sub)]

TxtChair1 == <<"C", "h", "a", "i", "r", "1">>

MapOne == SetToBag({MapRow(TxtChair1, "Chairs")})

MapTwo == SetToBag({MapRow(TxtChair1, "Chairs"), MapRow(TxtChair1, "Seats")})

MapChoices == {MapOne, MapTwo}

(***************************************************************************)
(* RUN_INSERT_ORDERS: INSERT INTO Transformed.public.ORDERS ...            *)
(***************************************************************************)
\* TO_CHAR(TRY_TO_DATE(OrderDate, 'DD-MM-YYYY'), 'YYYYMM')
BusinessMonth(o) == ToCharYYYYMM(TryToDate(o.OrderDate))

\* (mutant) the month the DAG's description names: exec month - 2
TargetMonthMinusTwo(cur) == DateTruncMonth(Val(AddMonths(cur, -2)))

\* DATE_TRUNC('MONTH', ADD_MONTHS(CURRENT_DATE, -1))
TargetMonth(cur) == DateTruncMonth(Val(AddMonths(cur, -1)))

\* WHERE DATE_TRUNC('MONTH', TO_DATE(tbl_dt::STRING, 'YYYYMMDD')) = ...
InTargetMonth(o, cur) ==
    SqlEq(DateTruncMonth(TblDtToDate(o.TBL_DT)), TargetMonth(cur))

\* (mutant) the smallest element: the oldest batch instead of the latest
MinOf(S) == CHOOSE x \in S : \A y \in S : x <= y

MaxOf(S) == CHOOSE x \in S : \A y \in S : y <= x

\* the CTE latest_files: one row per business month of the staging rows
\* ingested in the target month, with the greatest tbl_dt of the group
LatestFiles(stg, cur) ==
    LET src == {o \in stg : InTargetMonth(o, cur)}
    IN  { [business_month |-> bm,
           max_tbl_dt |->
              Val(MaxOf({o.TBL_DT[1] : o \in {x \in src : BusinessMonth(x) = bm}}))]
          : bm \in {BusinessMonth(o) : o \in src} }

\* the select list
CleanedRow(o, m) ==
    [RowID |-> o.RowID,
     OrderID |-> o.OrderID,
     OrderDate |-> TryToDate(o.OrderDate),
     ShipDate |-> TryToDate(o.ShipDate),
     CustomerID |-> o.CustomerID,
     Segment |-> o.Segment,
     Country |-> o.Country,
     ProductID |-> o.ProductID,
     Profit |-> o.Profit,
     postalcode |-> o.postalcode,
     CustomerName |-> Sanitize(o.CustomerName),
     City |-> Sanitize(o.City),
     State |-> Sanitize(o.State),
     Region |-> Sanitize(o.Region),
     Category |-> Sanitize(o.Category),
     SubCategory |-> Coalesce(m.SUBCATEGORY, Val("Unmapped")),
     ProductName |-> Sanitize(o.ProductName),
     actual_date |-> TryToDate(o.OrderDate),
     TBL_DT |-> o.TBL_DT,
     pass |-> o.pass]

\* the row of NULLs a LEFT JOIN supplies when no map row matches
NoMapRow == [PRODUCTNAME |-> Null, SUBCATEGORY |-> Null]

\* (mutant) the join without its tbl_dt condition
JoinsLatestMonthOnly(o, lf) == SqlEq(BusinessMonth(o), lf.business_month)

\* JOIN latest_files lf ON business month = lf.business_month
\*                     AND o.tbl_dt = lf.max_tbl_dt
JoinsLatest(o, lf) ==
    /\ SqlEq(BusinessMonth(o), lf.business_month)
    /\ SqlEq(o.TBL_DT, lf.max_tbl_dt)

\* (mutant) the filter with Profit >= 0
PassesFilterNonNegative(o) ==
    SqlGt(o.Profit, -1) /\ ~IsNull(TryToDate(o.OrderDate))

\* WHERE o.Profit > 0 AND TRY_TO_DATE(o.OrderDate, 'DD-MM-YYYY') IS NOT NULL
PassesFilter(o) == SqlGt(o.Profit, 0) /\ ~IsNull(TryToDate(o.OrderDate))

\* LEFT JOIN ... m ON REGEXP_REPLACE(o.ProductName, ...) = m.PRODUCTNAME
MapMatches(o, lookup) ==
    {m \in Rows(lookup) : SqlEq(Sanitize(o.ProductName), m.PRODUCTNAME)}

\* the rows the statement selects, as <<staging row, map row>> derivations
OrdersSelection(stg, lookup, cur) ==
    LET lfs == LatestFiles(stg, cur)
        os  == {o \in stg : PassesFilter(o) /\ \E lf \in lfs : JoinsLatest(o, lf)}
    IN  UNION { IF MapMatches(o, lookup) = {}
                THEN {<<o, NoMapRow>>}
                ELSE {<<o, m>> : m \in MapMatches(o, lookup)} : o \in os }

\* the bag of rows one execution inserts
OrdersInserted(stg, lookup, cur) ==
    LET sel == OrdersSelection(stg, lookup, cur)
    IN  BagFrom(sel,
                [d \in sel |-> CleanedRow(d[1], d[2])],
                [d \in sel |-> IF d[2] = NoMapRow THEN 1
                               ELSE CopiesIn(d[2], lookup)])

(***************************************************************************)
(* RUN_INSERT_CUSTOMERS / RUN_INSERT_PRODUCTS / RUN_INSERT_GEOGRAPHY:      *)
(* MERGE INTO <dimension> USING (SELECT DISTINCT ...) WHEN NOT MATCHED.    *)
(***************************************************************************)
\* SELECT DISTINCT customerid, customername, segment FROM orders
CustomerSource(ord) ==
    { [customerid |-> o.CustomerID, customername |-> o.CustomerName,
       segment |-> o.Segment] : o \in Rows(ord) }

\* ON c.customerid = s.customerid
CustomerOn(c, s) == SqlEq(c.customerid, s.customerid)

\* the source rows no target row matches; each is inserted once.  Matching
\* is against the target as it is before the statement.
CustomersInserted(ord, cust) ==
    {s \in CustomerSource(ord) : ~\E c \in Rows(cust) : CustomerOn(c, s)}

\* SELECT DISTINCT productid, category, subcategory, productname FROM orders
ProductSource(ord) ==
    { [productid |-> o.ProductID, category |-> o.Category,
       subcategory |-> o.SubCategory, productname |-> o.ProductName]
      : o \in Rows(ord) }

\* ON p.productid = s.productid
ProductOn(p, s) == SqlEq(p.productid, s.productid)

ProductsInserted(ord, prod) ==
    {s \in ProductSource(ord) : ~\E p \in Rows(prod) : ProductOn(p, s)}

\* SELECT DISTINCT country, city, state, postalcode, region FROM orders
GeographySource(ord) ==
    { [country |-> o.Country, city |-> o.City, state |-> o.State,
       postalcode |-> o.postalcode, region |-> o.Region] : o \in Rows(ord) }

\* ON g.country = s.country AND g.city = s.city AND g.state = s.state
\*    AND g.postalcode = s.postalcode AND g.region = s.region
GeographyOn(g, s) ==
    /\ SqlEq(g.country, s.country)
    /\ SqlEq(g.city, s.city)
    /\ SqlEq(g.state, s.state)
    /\ SqlEq(g.postalcode, s.postalcode)
    /\ SqlEq(g.region, s.region)

GeographyInserted(ord, geo) ==
    {s \in GeographySource(ord) : ~\E g \in geo : GeographyOn(g, s)}

\* a geography row: the inserted columns and the surrogate key the table
\* generates
GeographyRow(id, s) ==
    [geography_id |-> Val(id), country |-> s.country, city |-> s.city,
     state |-> s.state, postalcode |-> s.postalcode, region |-> s.region]

\* the ways the table can number the rows of one insert: the next unused
\* ids, in any order
GeographyNumberings(geo, ins) ==
    LET n   == Cardinality(geo)
        ids == (n + 1)..(n + Cardinality(ins))
    IN  {f \in [ins -> ids] : \A a, b \in ins : a # b => f[a] # f[b]}

(***************************************************************************)
(* RUN_INSERT_FACT_ORDER: MERGE INTO fact_orders USING (join) ON orderid.  *)
(***************************************************************************)
\* JOIN customers c ON o.customerid = c.customerid
FactJoinCustomer(o, c) == SqlEq(o.CustomerID, c.customerid)

\* JOIN products p ON o.productid = p.productid
FactJoinProduct(o, p) == SqlEq(o.ProductID, p.productid)

\* (mutant) the geography join without its postalcode condition
FactJoinGeographyNoPostcode(o, g) ==
    /\ SqlEq(o.Country, g.country)
    /\ SqlEq(o.City, g.city)
    /\ SqlEq(o.State, g.state)
    /\ SqlEq(o.Region, g.region)

\* JOIN geography g ON country, city, state, postalcode, region
FactJoinGeography(o, g) ==
    /\ SqlEq(o.Country, g.country)
    /\ SqlEq(o.City, g.city)
    /\ SqlEq(o.State, g.state)
    /\ SqlEq(o.postalcode, g.postalcode)
    /\ SqlEq(o.Region, g.region)

\* the select list of the USING subquery
FactRow(o, c, p, g) ==
    [orderid |-> o.OrderID,
     orderdate |-> o.OrderDate,
     shipdate |-> o.ShipDate,
     shipmode |-> o.pass.ShipMode,
     sales |-> o.pass.Sales,
     quantity |-> o.pass.Quantity,
     discount |-> o.pass.Discount,
     profit |-> o.Profit,
     customerid |-> c.customerid,
     productid |-> p.productid,
     geoid |-> g.geography_id]

\* (mutant) geography joined with LEFT JOIN: a line without a geography
\* row is kept, with a NULL geography_id
FactSourceLeftJoin(ord, cust, prod, geo) ==
    LET none == [geography_id |-> Null]
    IN  { d \in Rows(ord) \X Rows(cust) \X Rows(prod) \X (geo \cup {none}) :
            /\ FactJoinCustomer(d[1], d[2])
            /\ FactJoinProduct(d[1], d[3])
            /\ IF d[4] = none
               THEN ~\E g \in geo : FactJoinGeography(d[1], g)
               ELSE FactJoinGeography(d[1], d[4]) }

\* the joined rows of the USING subquery, as <<o, c, p, g>> derivations
FactSource(ord, cust, prod, geo) ==
    { d \in Rows(ord) \X Rows(cust) \X Rows(prod) \X geo :
        /\ FactJoinCustomer(d[1], d[2])
        /\ FactJoinProduct(d[1], d[3])
        /\ FactJoinGeography(d[1], d[4]) }

\* ON f.orderid = s.orderid
FactOn(f, o) == SqlEq(f.orderid, o.OrderID)

\* the bag of rows one execution inserts: every source row no target row
\* matches, as often as the join produces it
FactInserted(ord, cust, prod, geo, fact) ==
    LET src == { d \in FactSource(ord, cust, prod, geo) :
                   ~\E f \in Rows(fact) : FactOn(f, d[1]) }
    IN  BagFrom(src,
                [d \in src |-> FactRow(d[1], d[2], d[3], d[4])],
                [d \in src |-> CopiesIn(d[1], ord) * CopiesIn(d[2], cust)
                               * CopiesIn(d[3], prod)])

(***************************************************************************)
(* The DAG: tasks, dependencies and scheduling arguments.                  *)
(***************************************************************************)
SqlTasks ==
    <<"RUN_INSERT_ORDERS", "RUN_INSERT_CUSTOMERS", "RUN_INSERT_PRODUCTS",
      "RUN_INSERT_GEOGRAPHY", "RUN_INSERT_FACT_ORDER">>

\* start >> RUN_INSERT_ORDERS >> ... >> RUN_INSERT_FACT_ORDER >> end
Chain == <<"start">> \o SqlTasks \o <<"end">>

Tasks == {Chain[i] : i \in 1..Len(Chain)}

\* (mutant) the fact merge chained after the loader, beside the dimensions
EdgesFactAfterOrders ==
    ({<<Chain[i], Chain[i + 1]>> : i \in 1..(Len(Chain) - 1)}
        \ {<<"RUN_INSERT_GEOGRAPHY", "RUN_INSERT_FACT_ORDER">>})
    \cup {<<"RUN_INSERT_ORDERS", "RUN_INSERT_FACT_ORDER">>,
          <<"RUN_INSERT_GEOGRAPHY", "end">>}

\* a >> b >> c sets an edge between each pair of neighbours
Edges == {<<Chain[i], Chain[i + 1]>> : i \in 1..(Len(Chain) - 1)}

Upstream(t) == {e[1] : e \in {x \in Edges : x[2] = t}}

RECURSIVE Descendants(_, _)
Descendants(t, n) ==
    IF n = 0 THEN {}
    ELSE LET direct == {e[2] : e \in {x \in Edges : x[1] = t}}
         IN  direct \cup UNION {Descendants(u, n - 1) : u \in direct}

\* (mutant) only the tasks directly after t
DownstreamDirect(t) == Descendants(t, 1)

Downstream(t) == Descendants(t, Cardinality(Tasks))

\* start_date=datetime(2024, 3, 1)
StartDate == Date(2024, 3, 1)

\* catchup=True
Catchup == TRUE

\* max_active_runs=1
MaxActiveRuns == 1

DateLeq(a, b) ==
    a.y * 10000 + a.m * 100 + a.d <= b.y * 10000 + b.m * 100 + b.d

(***************************************************************************)
(* State.                                                                  *)
(***************************************************************************)
VARIABLES
    staging,      \* STG.raw_data.ORDERS: a set of rows with distinct RowID
    submap,       \* transformed.public.PRODUCT_SUBCATEGORY_MAP: a bag
    orders,       \* Transformed.public.ORDERS (cleaned orders): a bag
    customers,    \* transformed.public.customers: a bag
    products,     \* transformed.public.products: a bag
    geography,    \* transformed.public.geography: rows with geography_id
    fact_orders,  \* transformed.public.fact_orders: a bag
    today,        \* CURRENT_DATE of the warehouse, first day of its month
    dagRuns,      \* the scheduler's runs of the DAG, in creation order
    manual,       \* statements executed by hand: how many, and the last
    passPos,      \* history: how many of the four merges have run, in
                  \* order, since cleaned orders last changed
    skipped       \* history: the order ids a fact merge left out because
                  \* no line of the order had a geography row

tables == <<orders, customers, products, geography, fact_orders>>

inputs == <<staging, submap>>

history == <<passPos, skipped>>

vars == <<staging, submap, orders, customers, products, geography,
          fact_orders, today, dagRuns, manual, passPos, skipped>>

RECURSIVE SetsUpTo(_, _)
SetsUpTo(U, n) ==
    IF n = 0 THEN {{}}
    ELSE LET smaller == SetsUpTo(U, n - 1)
         IN  smaller \cup {S \cup {r} : S \in smaller, r \in U}

\* the DAG is deployed with the downstream tables empty, some staging data
\* ingested and the first schedule point reached or passed
Init ==
    /\ staging \in SetsUpTo(StagingUniverse, MaxRows)
    /\ submap \in MapChoices
    /\ orders = EmptyBag
    /\ customers = EmptyBag
    /\ products = EmptyBag
    /\ geography = {}
    /\ fact_orders = EmptyBag
    /\ today \in {AddMonths(StartDate, k) : k \in 1..MaxMonths}
    /\ dagRuns = <<>>
    /\ manual = [n |-> 0, stmt |-> "none"]
    /\ passPos = 0
    /\ skipped = {}

(***************************************************************************)
(* The effect of each statement on the warehouse.                          *)
(***************************************************************************)
\* the merges in the order the DAG chains them
MergeOrder ==
    <<"RUN_INSERT_CUSTOMERS", "RUN_INSERT_PRODUCTS", "RUN_INSERT_GEOGRAPHY",
      "RUN_INSERT_FACT_ORDER">>

\* passPos after merge number k has executed
Advance(k) == passPos' = IF passPos = k - 1 THEN k ELSE passPos

\* the order ids of cleaned orders none of whose lines has a geography row
\* (a row with the line's five values, none of them NULL)
GeoKey(r, cols) == [i \in 1..5 |-> r[cols[i]]]

HasGeography(o, geo) ==
    LET key == GeoKey(o, <<"Country", "City", "State", "postalcode", "Region">>)
    IN  /\ \A i \in 1..5 : key[i] # Null
        /\ \E g \in geo :
              GeoKey(g, <<"country", "city", "state", "postalcode", "region">>) = key

NoGeography(ord, geo) ==
    {o.OrderID : o \in Rows(ord)}
    \ {o.OrderID : o \in {x \in Rows(ord) : HasGeography(x, geo)}}

\* (mutant) INSERT OVERWRITE: the selection replaces the table
StmtOverwriteOrders ==
    /\ orders' = OrdersInserted(staging, submap, today)
    /\ passPos' = IF orders' = orders THEN passPos ELSE 0
    /\ UNCHANGED <<customers, products, geography, fact_orders, inputs, skipped>>

StmtInsertOrders ==
    /\ orders' = orders (+) OrdersInserted(staging, submap, today)
    /\ passPos' = IF orders' = orders THEN passPos ELSE 0
    /\ UNCHANGED <<customers, products, geography, fact_orders, inputs, skipped>>

StmtMergeCustomers ==
    /\ customers' = customers (+) SetToBag(CustomersInserted(orders, customers))
    /\ Advance(1)
    /\ UNCHANGED <<orders, products, geography, fact_orders, inputs, skipped>>

StmtMergeProducts ==
    /\ products' = products (+) SetToBag(ProductsInserted(orders, products))
    /\ Advance(2)
    /\ UNCHANGED <<orders, customers, geography, fact_orders, inputs, skipped>>

StmtMergeGeography ==
    /\ LET ins == GeographyInserted(orders, geography)
       IN  \E f \in GeographyNumberings(geography, ins) :
              geography' = geography \cup {GeographyRow(f[s], s) : s \in ins}
    /\ Advance(3)
    /\ UNCHANGED <<orders, customers, products, fact_orders, inputs, skipped>>

StmtMergeFact ==
    /\ fact_orders' = fact_orders (+)
          FactInserted(orders, customers, products, geography, fact_orders)
    /\ Advance(4)
    /\ skipped' = skipped \cup NoGeography(orders, geography)
    /\ UNCHANGED <<orders, customers, products, geography, inputs>>

\* EmptyOperator: start and end do nothing
StmtEmpty == UNCHANGED <<tables, inputs, history>>

Effect(t) ==
    CASE t = "RUN_INSERT_ORDERS" -> StmtInsertOrders
      [] t = "RUN_INSERT_CUSTOMERS" -> StmtMergeCustomers
      [] t = "RUN_INSERT_PRODUCTS" -> StmtMergeProducts
      [] t = "RUN_INSERT_GEOGRAPHY" -> StmtMergeGeography
      [] t = "RUN_INSERT_FACT_ORDER" -> StmtMergeFact
      [] OTHER -> StmtEmpty

(***************************************************************************)
(* The scheduler: it creates a run per elapsed schedule interval, starts   *)
(* queued runs while fewer than max_active_runs are running, and runs a    *)
(* task when all its upstream tasks have succeeded.                        *)
(***************************************************************************)
\* schedule="0 6 1 * *": one schedule point on the first of every month
SchedulePoints == {AddMonths(StartDate, k) : k \in 0..MaxMonths}

\* the logical dates whose interval has ended and that have no run yet
DueDates ==
    {L \in SchedulePoints :
        /\ DateLeq(AddMonths(L, 1), today)
        /\ \A i \in 1..Len(dagRuns) :
              ~DateLeq(L, dagRuns[i].logical_date)}

Earliest(D) == CHOOSE L \in D : \A M \in D : DateLeq(L, M)

Latest(D) == CHOOSE L \in D : \A M \in D : DateLeq(M, L)

NewRun(L) ==
    [logical_date |-> L, state |-> "queued",
     ti |-> [t \in Tasks |-> "none"], clock |-> Null]

CreateDagRun ==
    /\ DueDates # {}
    /\ dagRuns' = Append(dagRuns,
          NewRun(IF Catchup THEN Earliest(DueDates) ELSE Latest(DueDates)))
    /\ UNCHANGED <<tables, inputs, history, today, manual>>

\* (mutant) the scheduler counts no run as active
RunningNone == {}

Running == {i \in 1..Len(dagRuns) : dagRuns[i].state = "running"}

StartDagRun ==
    \E i \in 1..Len(dagRuns) :
        /\ dagRuns[i].state = "queued"
        /\ \A j \in 1..(i - 1) : dagRuns[j].state # "queued"
        /\ Cardinality(Running) < MaxActiveRuns
        /\ dagRuns' = [dagRuns EXCEPT ![i].state = "running"]
        /\ UNCHANGED <<tables, inputs, history, today, manual>>

\* a task of a running run is ready when it has not run and every upstream
\* task succeeded (trigger rule all_success)
Ready(i, t) ==
    /\ dagRuns[i].state = "running"
    /\ dagRuns[i].ti[t] = "none"
    /\ \A u \in Upstream(t) : dagRuns[i].ti[u] = "success"

RunStateOf(ti) ==
    IF \E t \in Tasks : ti[t] \in {"failed", "upstream_failed"} THEN "failed"
    ELSE IF \A t \in Tasks : ti[t] = "success" THEN "success"
    ELSE "running"

Succeed(i, t) ==
    LET ti == [dagRuns[i].ti EXCEPT ![t] = "success"]
    IN  dagRuns' = [dagRuns EXCEPT
                      ![i].ti = ti,
                      ![i].state = RunStateOf(ti),
                      ![i].clock = IF t = "RUN_INSERT_ORDERS"
                                   THEN Val(today) ELSE @]

\* the task runs and its statement succeeds
ExecuteTask(t) ==
    \E i \in 1..Len(dagRuns) :
        /\ Ready(i, t)
        /\ Effect(t)
        /\ Succeed(i, t)
        /\ UNCHANGED <<today, manual>>

\* the statement of an SQL task fails: nothing is written, the task is
\* failed and the tasks downstream of it are never run
Failed == {i \in 1..Len(dagRuns) : dagRuns[i].state = "failed"}

FailTask(t) ==
    \E i \in 1..Len(dagRuns) :
        /\ Cardinality(Failed) < MaxFailures
        /\ Ready(i, t)
        /\ LET ti == [u \in Tasks |->
                        IF u = t THEN "failed"
                        ELSE IF u \in Downstream(t) THEN "upstream_failed"
                        ELSE dagRuns[i].ti[u]]
           IN  dagRuns' = [dagRuns EXCEPT ![i].ti = ti,
                                          ![i].state = RunStateOf(ti)]
        /\ UNCHANGED <<tables, inputs, history, today, manual>>

\* the calendar moves on to the next month
Tick ==
    /\ DateLeq(AddMonths(today, 1), AddMonths(StartDate, MaxMonths))
    /\ today' = AddMonths(today, 1)
    /\ UNCHANGED <<tables, inputs, history, dagRuns, manual>>

RunStart == ExecuteTask("start")

RunInsertOrders == ExecuteTask("RUN_INSERT_ORDERS")

RunInsertCustomers == ExecuteTask("RUN_INSERT_CUSTOMERS")

RunInsertProducts == ExecuteTask("RUN_INSERT_PRODUCTS")

RunInsertGeography == ExecuteTask("RUN_INSERT_GEOGRAPHY")

RunInsertFactOrder == ExecuteTask("RUN_INSERT_FACT_ORDER")

RunEnd == ExecuteTask("end")

FailSqlTask == \E k \in 1..Len(SqlTasks) : FailTask(SqlTasks[k])

Next ==
    \/ CreateDagRun
    \/ StartDagRun
    \/ RunStart
    \/ RunInsertOrders
    \/ RunInsertCustomers
    \/ RunInsertProducts
    \/ RunInsertGeography
    \/ RunInsertFactOrder
    \/ RunEnd
    \/ FailSqlTask
    \/ Tick

Spec == Init /\ [][Next]_vars

(***************************************************************************)
(* The statements executed one at a time by an operator (a task run or     *)
(* cleared by hand), in any order, outside the scheduler's runs.           *)
(***************************************************************************)
Manual(t) ==
    /\ manual.n < MaxSteps
    /\ Effect(t)
    /\ manual' = [n |-> manual.n + 1, stmt |-> t]
    /\ UNCHANGED <<today, dagRuns>>

ManualInsertOrders == Manual("RUN_INSERT_ORDERS")

ManualMergeCustomers == Manual("RUN_INSERT_CUSTOMERS")

ManualMergeProducts == Manual("RUN_INSERT_PRODUCTS")

ManualMergeGeography == Manual("RUN_INSERT_GEOGRAPHY")

ManualMergeFact == Manual("RUN_INSERT_FACT_ORDER")

StmtNext ==
    \/ ManualInsertOrders
    \/ ManualMergeCustomers
    \/ ManualMergeProducts
    \/ ManualMergeGeography
    \/ ManualMergeFact

\* the operator works in the month the DAG is deployed
StmtInit == Init /\ today = AddMonths(StartDate, 1) /\ submap = MapOne

StmtSpec == StmtInit /\ [][StmtNext]_vars

(***************************************************************************)
(* Vocabulary of the properties.                                           *)
(***************************************************************************)
\* this step is a successful execution of task t, by a run or by hand
TaskStep(t) ==
    \/ \E i \in 1..Len(dagRuns) :
          dagRuns[i].ti[t] = "none" /\ dagRuns'[i].ti[t] = "success"
    \/ manual'.n = manual.n + 1 /\ manual'.stmt = t

\* the cleaned rows this step adds
InsertedRows == {r \in Rows(orders') : CopiesIn(r, orders') > CopiesIn(r, orders)}

FactIds(f) == {r.orderid : r \in Rows(f)}

\* YYYYMM of the month before the month of date d
PrevYYYYMM(d) == IF d.m = 1 THEN (d.y - 1) * 100 + 12 ELSE d.y * 100 + d.m - 1

\* YYYYMM of a row's ingestion batch
TblMonth(r) == r.TBL_DT[1] \div 100

\* an order line with a customer, a product and a geography row to join
FullyMatched(o) ==
    /\ HasGeography(o, geography)
    /\ o.CustomerID # Null /\ \E c \in Rows(customers) : c.customerid = o.CustomerID
    /\ o.ProductID # Null /\ \E q \in Rows(products) : q.productid = o.ProductID

(***************************************************************************)
(* C1: once the four merges have run in order on the current content of    *)
(* cleaned orders, running them again inserts nothing: customers,          *)
(* products, geography and fact_orders stay as they are.                   *)
(***************************************************************************)
C1_MergesIdempotent ==
    [][passPos = 4 => UNCHANGED <<customers, products, geography, fact_orders>>]_vars

(***************************************************************************)
(* C2: no two rows of fact_orders have the same orderid.                   *)
(***************************************************************************)
C2_OneFactRowPerOrder ==
    \A f \in Rows(fact_orders) :
        /\ CopiesIn(f, fact_orders) = 1
        /\ \A g \in Rows(fact_orders) : g.orderid = f.orderid => g = f

(***************************************************************************)
(* C3: no two rows of customers share a customerid and no two rows of      *)
(* products share a productid.                                             *)
(***************************************************************************)
C3_DimensionKeysUnique ==
    /\ \A c \in Rows(customers) :
          /\ CopiesIn(c, customers) = 1
          /\ \A d \in Rows(customers) : d.customerid = c.customerid => d = c
    /\ \A q \in Rows(products) :
          /\ CopiesIn(q, products) = 1
          /\ \A d \in Rows(products) : d.productid = q.productid => d = q

C5_LatestBatchOnly ==
    [][TaskStep("RUN_INSERT_ORDERS") =>
          \A a, b \in staging :
              ( /\ TblMonth(a) = PrevYYYYMM(today)
                /\ TblMonth(b) = PrevYYYYMM(today)
                /\ SqlEq(BusinessMonth(a), BusinessMonth(b))
                /\ a.TBL_DT[1] < b.TBL_DT[1] )
              => /\ a.RowID \notin {r.RowID : r \in InsertedRows}
                 /\ \A r \in InsertedRows :
                       ToCharYYYYMM(r.OrderDate) = BusinessMonth(b)
                          => r.TBL_DT[1] >= b.TBL_DT[1]]_vars

\* a run has loaded the later of two March batches of one business month
C5_Witness ==
    \E i \in 1..Len(dagRuns) :
        /\ dagRuns[i].clock # Null
        /\ \E a, b \in staging :
              /\ TblMonth(a) = PrevYYYYMM(dagRuns[i].clock[1])
              /\ TblMonth(b) = PrevYYYYMM(dagRuns[i].clock[1])
              /\ SqlEq(BusinessMonth(a), BusinessMonth(b))
              /\ a.TBL_DT[1] < b.TBL_DT[1]
              /\ b.RowID \in {r.RowID : r \in Rows(orders)}
              /\ a.RowID \notin {r.RowID : r \in Rows(orders)}

(***************************************************************************)
(* C6: no row of cleaned orders has a NULL OrderDate, and none comes from  *)
(* a staging row with Profit <= 0 or with an OrderDate that does not parse *)
(* as day-month-year.                                                      *)
(***************************************************************************)
C6_FilterCorrect ==
    \A r \in Rows(orders) :
        /\ r.OrderDate # Null
        /\ \A o \in staging :
              o.RowID = r.RowID
                 => /\ o.Profit # Null /\ o.Profit[1] > 0
                    /\ TryToDate(o.OrderDate) # Null

\* a run has loaded the month of a row the filter rejects
C6_Witness ==
    \E i \in 1..Len(dagRuns) :
        /\ dagRuns[i].clock # Null
        /\ \E o \in staging :
              /\ TblMonth(o) = PrevYYYYMM(dagRuns[i].clock[1])
              /\ o.Profit[1] <= 0 \/ TryToDate(o.OrderDate) = Null
              /\ o.RowID \notin {r.RowID : r \in Rows(orders)}

(***************************************************************************)
(* C7 as stated: every row of cleaned orders has its OrderDate month equal *)
(* to the month of its own tbl_dt.                                         *)
(***************************************************************************)
C7_MonthsEqual ==
    \A r \in Rows(orders) : ToCharYYYYMM(r.OrderDate) = Val(TblMonth(r))

(***************************************************************************)
(* C7 as amended: the join compares a row's OrderDate month with the       *)
(* business month of a latest_files group, not with the month of its       *)
(* tbl_dt.  Every row an execution of RUN_INSERT_ORDERS inserts has an     *)
(* OrderDate month, and its tbl_dt is the greatest among the staging rows  *)
(* of the target month with that OrderDate month.                          *)
(***************************************************************************)
C7_JoinedOnBusinessMonth ==
    [][TaskStep("RUN_INSERT_ORDERS") =>
          \A r \in InsertedRows :
              LET group == {o \in staging :
                              /\ TblMonth(o) = PrevYYYYMM(today)
                              /\ SqlEq(BusinessMonth(o), ToCharYYYYMM(r.OrderDate))}
              IN  /\ ToCharYYYYMM(r.OrderDate) # Null
                  /\ \E o \in group : o.TBL_DT = r.TBL_DT
                  /\ \A o \in group : o.TBL_DT[1] <= r.TBL_DT[1]]_vars

\* cleaned orders holds a row ordered in one month and ingested in another
C7_Witness ==
    \E r \in Rows(orders) :
        /\ r.OrderDate # Null
        /\ r.OrderDate[1].y * 100 + r.OrderDate[1].m # TblMonth(r)

(***************************************************************************)
(* C8: two runs created for different scheduled months load different      *)
(* target months.                                                          *)
(***************************************************************************)
C8_RunsLoadOwnMonth ==
    \A i, j \in 1..Len(dagRuns) :
        ( /\ dagRuns[i].logical_date # dagRuns[j].logical_date
          /\ dagRuns[i].clock # Null
          /\ dagRuns[j].clock # Null )
        => PrevYYYYMM(dagRuns[i].clock[1]) # PrevYYYYMM(dagRuns[j].clock[1])

(***************************************************************************)
(* C9: every step only adds rows, changes no table but the target of the   *)
(* task it executes, and leaves the staging table and the subcategory map  *)
(* alone.                                                                  *)
(***************************************************************************)
TargetOf(t) ==
    CASE t = "RUN_INSERT_ORDERS" -> {"orders"}
      [] t = "RUN_INSERT_CUSTOMERS" -> {"customers"}
      [] t = "RUN_INSERT_PRODUCTS" -> {"products"}
      [] t = "RUN_INSERT_GEOGRAPHY" -> {"geography"}
      [] t = "RUN_INSERT_FACT_ORDER" -> {"fact_orders"}
      [] OTHER -> {}

ChangedTables ==
    (IF orders' # orders THEN {"orders"} ELSE {})
    \cup (IF customers' # customers THEN {"customers"} ELSE {})
    \cup (IF products' # products THEN {"products"} ELSE {})
    \cup (IF geography' # geography THEN {"geography"} ELSE {})
    \cup (IF fact_orders' # fact_orders THEN {"fact_orders"} ELSE {})

C9_AppendOnlyFrame ==
    [][ /\ orders \sqsubseteq orders'
        /\ customers \sqsubseteq customers'
        /\ products \sqsubseteq products'
        /\ geography \subseteq geography'
        /\ fact_orders \sqsubseteq fact_orders'
        /\ staging' = staging
        /\ submap' = submap
        /\ \A t \in Tasks : TaskStep(t) => ChangedTables \subseteq TargetOf(t)
        /\ ChangedTables # {} => \E t \in Tasks : TaskStep(t) ]_vars

\* a second run has gone through all its steps over tables the first filled
C9_Witness ==
    /\ Len(dagRuns) >= 2
    /\ dagRuns[2].ti["RUN_INSERT_FACT_ORDER"] = "success"
    /\ BagCardinality(orders) >= 2
    /\ customers # EmptyBag /\ products # EmptyBag
    /\ geography # {} /\ fact_orders # EmptyBag

(***************************************************************************)
(* C10: in every run a task starts only when every task before it in       *)
(* start, RUN_INSERT_ORDERS, RUN_INSERT_CUSTOMERS, RUN_INSERT_PRODUCTS,    *)
(* RUN_INSERT_GEOGRAPHY, RUN_INSERT_FACT_ORDER, end has succeeded.         *)
(***************************************************************************)
C10_LinearOrder ==
    [][\A i \in 1..Len(dagRuns) : \A k \in 1..Len(Chain) :
          ( /\ dagRuns[i].ti[Chain[k]] = "none"
            /\ dagRuns'[i].ti[Chain[k]] \in {"success", "failed"} )
          => \A j \in 1..(k - 1) : dagRuns[i].ti[Chain[j]] = "success"]_vars

\* a run has executed all seven tasks
C10_Witness ==
    \E i \in 1..Len(dagRuns) : \A t \in Tasks : dagRuns[i].ti[t] = "success"

(***************************************************************************)
(* C11: when a task of a run fails, the failing statement writes nothing,  *)
(* every task before it in the chain has succeeded, every task after it is *)
(* blocked and the run is failed; from then on no task of that run         *)
(* executes (end never succeeds), so the run changes no table any more;    *)
(* and no step removes a row the earlier tasks inserted.                   *)
(***************************************************************************)
HasFailed(run) == \E t \in Tasks : run.ti[t] = "failed"

C11_FailureWithoutRollback ==
    [][ /\ \A i \in 1..Len(dagRuns) : \A k \in 1..Len(Chain) :
              ( /\ dagRuns[i].ti[Chain[k]] = "none"
                /\ dagRuns'[i].ti[Chain[k]] = "failed" )
              => /\ UNCHANGED tables
                 /\ dagRuns'[i].state = "failed"
                 /\ \A j \in 1..(k - 1) : dagRuns'[i].ti[Chain[j]] = "success"
                 /\ \A j \in (k + 1)..Len(Chain) :
                       dagRuns'[i].ti[Chain[j]] = "upstream_failed"
        /\ \A i \in 1..Len(dagRuns) :
              HasFailed(dagRuns[i])
              => /\ dagRuns'[i] = dagRuns[i]
                 /\ dagRuns[i].ti["end"] # "success"
                 /\ \A t \in Tasks : dagRuns[i].ti[t] # "none"
        /\ orders \sqsubseteq orders'
        /\ customers \sqsubseteq customers'
        /\ products \sqsubseteq products'
        /\ geography \subseteq geography'
        /\ fact_orders \sqsubseteq fact_orders' ]_vars

\* a run failed at RUN_INSERT_GEOGRAPHY after loading rows and merging the
\* customers and products; its rows are there, geography and fact_orders
\* are as they were, and a later run has started
C11_Witness ==
    \E i \in 1..Len(dagRuns) :
        /\ dagRuns[i].ti["RUN_INSERT_GEOGRAPHY"] = "failed"
        /\ orders # EmptyBag /\ customers # EmptyBag /\ products # EmptyBag
        /\ geography = {} /\ fact_orders = EmptyBag
        /\ \E j \in (i + 1)..Len(dagRuns) : dagRuns[j].ti["start"] = "success"

(***************************************************************************)
(* C12: one execution of RUN_INSERT_ORDERS inserts exactly one cleaned row *)
(* for each staging row that passes batch selection and the filter,        *)
(* whatever PRODUCT_SUBCATEGORY_MAP holds.                                 *)
(***************************************************************************)
\* the staging rows of the latest batch of the target month that pass the
\* filter
Accepted ==
    {o \in staging :
        /\ PassesFilter(o)
        /\ TblMonth(o) = PrevYYYYMM(today)
        /\ \A x \in staging :
              (TblMonth(x) = PrevYYYYMM(today)
                 /\ SqlEq(BusinessMonth(x), BusinessMonth(o)))
              => x.TBL_DT[1] <= o.TBL_DT[1]}

\* how many rows with this RowID the step adds to cleaned orders
AddedWithRowID(id) ==
    LET rs == {r \in Rows(orders') : r.RowID = id}
    IN  SumOver(rs, [r \in rs |-> CopiesIn(r, orders') - CopiesIn(r, orders)])

C12_OneRowPerAccepted ==
    [][TaskStep("RUN_INSERT_ORDERS") =>
          /\ \A o \in Accepted : AddedWithRowID(o.RowID) = 1
          /\ BagCardinality(orders') - BagCardinality(orders)
                = Cardinality(Accepted)]_vars

(***************************************************************************)
(* C13: a row of cleaned orders whose sanitized product name has no row in *)
(* PRODUCT_SUBCATEGORY_MAP has SubCategory "Unmapped"; a row whose         *)
(* sanitized product name is mapped has the subcategory of a map row for   *)
(* that name; SubCategory is never NULL.                                   *)
(***************************************************************************)
C13_SubcategoryDefault ==
    \A r \in Rows(orders) :
        LET ms == {m \in Rows(submap) :
                      m.PRODUCTNAME # Null /\ m.PRODUCTNAME = r.ProductName}
        IN  /\ r.SubCategory # Null
            /\ ms = {} => r.SubCategory = Val("Unmapped")
            /\ ms # {} => r.SubCategory \in {m.SUBCATEGORY : m \in ms}

\* cleaned orders holds a row of a mapped product and a row of an unmapped one
C13_Witness ==
    /\ \E r \in Rows(orders) : r.SubCategory = Val("Unmapped")
    /\ \E r \in Rows(orders) :
          /\ r.SubCategory = Val("Chairs")
          /\ \E m \in Rows(submap) : m.PRODUCTNAME = r.ProductName

(***************************************************************************)
(* The sanitation as the specification words it: every character is        *)
(* removed except letters, digits, whitespace, '.', ',' and '-'.           *)
(***************************************************************************)
Letters ==
    {Alphabet[k] : k \in Ord("A")..Ord("Z")}
    \cup {Alphabet[k] : k \in Ord("a")..Ord("z")}

Retained ==
    Letters \cup {Alphabet[k] : k \in Ord("0")..Ord("9")}
    \cup Whitespace \cup {".", ",", "-"}

OnlyRetained(text) ==
    IF IsNull(text) THEN Null
    ELSE Val(SelectSeq(text[1], LAMBDA c : c \in Retained))

(***************************************************************************)
(* C14: when the first run completes over a staging table of one row that  *)
(* has a parseable OrderDate, Profit > 0 and a tbl_dt in the month the run *)
(* loaded, cleaned orders holds exactly one row, with the product name     *)
(* reduced to its letters, digits, whitespace, '.', ',' and '-'; the       *)
(* customers, products and geography hold one row each; and fact_orders    *)
(* holds exactly one row, whose customerid, productid and geoid are those  *)
(* of the three dimension rows.                                            *)
(***************************************************************************)
C14_EndToEnd ==
    [][\A o \in staging :
          ( /\ staging = {o}
            /\ PassesFilter(o)
            /\ Len(dagRuns) >= 1
            /\ dagRuns[1].ti["end"] = "none"
            /\ dagRuns'[1].ti["end"] = "success"
            /\ TblMonth(o) = PrevYYYYMM(dagRuns[1].clock[1]) )
          => /\ BagCardinality(orders') = 1
             /\ \A r \in Rows(orders') :
                   r.ProductName = OnlyRetained(o.ProductName)
             /\ BagCardinality(customers') = 1
             /\ BagCardinality(products') = 1
             /\ Cardinality(geography') = 1
             /\ BagCardinality(fact_orders') = 1
             /\ \A f \in Rows(fact_orders') :
                   /\ \E c \in Rows(customers') : f.customerid = c.customerid
                   /\ \E q \in Rows(products') : f.productid = q.productid
                   /\ \E g \in geography' : f.geoid = g.geography_id]_vars

(***************************************************************************)
(* C15: the CustomerName, City, State, Region, Category and ProductName of *)
(* every row of cleaned orders equal the staging row's text with every     *)
(* character removed except letters, digits, whitespace, '.', ',' and '-'  *)
(* (the retained characters, whitespace included, all kept and in order).  *)
(***************************************************************************)
SanitizedColumns ==
    {"CustomerName", "City", "State", "Region", "Category", "ProductName"}

C15_SanitationKeepsWhitespace ==
    \A r \in Rows(orders) : \A o \in staging :
        o.RowID = r.RowID
           => \A col \in SanitizedColumns : r[col] = OnlyRetained(o[col])

(***************************************************************************)
(* C16: at most one run is running in any state, and a run has a task      *)
(* that started only when every run created before it has finished         *)
(* (succeeded or failed): the tasks of two runs do not interleave.         *)
(***************************************************************************)
C16_NoOverlappingRuns ==
    /\ Cardinality({i \in 1..Len(dagRuns) : dagRuns[i].state = "running"}) <= 1
    /\ \A i, j \in 1..Len(dagRuns) :
          (i < j /\ \E t \in Tasks : dagRuns[j].ti[t] # "none")
          => dagRuns[i].state \in {"success", "failed"}

\* catch-up has created two runs; the first is half way, the second waits
C16_Witness ==
    /\ Len(dagRuns) >= 2
    /\ dagRuns[1].state = "running"
    /\ dagRuns[1].ti["RUN_INSERT_PRODUCTS"] = "success"
    /\ dagRuns[2].state = "queued"

(***************************************************************************)
(* C17: when RUN_INSERT_ORDERS executes again with the same staging data   *)
(* and the same current date, every row loaded before is inserted once     *)
(* more (after n earlier loads a row is held n + 1 times as often as one   *)
(* load inserts it); and when a run with the same current date has         *)
(* completed before, the four merges of the later run insert nothing into  *)
(* customers, products, geography or fact_orders.                          *)
(***************************************************************************)
\* the runs that loaded cleaned orders on the date d
LoadedOn(d) == {i \in 1..Len(dagRuns) : dagRuns[i].clock = Val(d)}

\* run i executes merge t in this step after a run that completed with the
\* same current date
RepeatedMerge(t) ==
    \E i \in 1..Len(dagRuns) :
        /\ dagRuns[i].ti[t] = "none" /\ dagRuns'[i].ti[t] = "success"
        /\ \E j \in 1..(i - 1) :
              /\ dagRuns[j].state = "success"
              /\ dagRuns[j].clock = dagRuns[i].clock

\* a load on a date that n loads were made on before adds every row once
\* more
LoaderRepeatsStep ==
    (TaskStep("RUN_INSERT_ORDERS") /\ LoadedOn(today) # {}) =>
        LET n == Cardinality(LoadedOn(today))
        IN  /\ \A o \in Accepted : \E r \in Rows(orders) : r.RowID = o.RowID
            /\ \A r \in Rows(orders') :
                  TblMonth(r) = PrevYYYYMM(today)
                  => CopiesIn(r, orders') * n = CopiesIn(r, orders) * (n + 1)

\* the first half on its own: the loader is not idempotent
LoaderRepeats == [][LoaderRepeatsStep]_vars

C17_LoaderRepeatsMergesDoNot ==
    [][ /\ LoaderRepeatsStep
        /\ \A k \in 1..Len(MergeOrder) :
              RepeatedMerge(MergeOrder[k])
              => UNCHANGED <<customers, products, geography, fact_orders>> ]_vars

C19_FactReferencesDimensions ==
    \A f \in Rows(fact_orders) :
        /\ f.customerid # Null
        /\ \E c \in Rows(customers) : c.customerid = f.customerid
        /\ f.productid # Null
        /\ \E q \in Rows(products) : q.productid = f.productid
        /\ f.geoid # Null
        /\ \E g \in geography : g.geography_id = f.geoid

\* a run filled fact_orders, and a run failed after loading an order line
\* that has no geography row
C19_Witness ==
    /\ fact_orders # EmptyBag
    /\ \E i \in 1..Len(dagRuns) : HasFailed(dagRuns[i])
    /\ \E o \in Rows(orders) : ~HasGeography(o, geography)

=============================================================================
